---- MODULE Spec2Model ----
(***************************************************************************)
(* CortexMetaAgent: the orchestrator's change-detection and reaction loop  *)
(* (workflow/orchestrator.py) together with the inventory it observes      *)
(* (mcp-servers/mcp-agent-inventory/server.py).                            *)
(*                                                                         *)
(* The specifications of the module:                                       *)
(*   Spec            the React cycle (detect / react / detect again), the  *)
(*                   agent state cache in memory and on disk, process      *)
(*                   restarts, and the inventory changing underneath;      *)
(*   DetectSpec      detect_agent_changes called on its own;               *)
(*   SchedSpec       the scheduler threads (start_scheduler,               *)
(*                   stop_scheduler, signal_handler, scheduler_worker),    *)
(*                   with SchedFairSpec its fair version for liveness;     *)
(*   InventorySpec   the inventory service: register, record, delete and   *)
(*                   the usage summary;                                    *)
(*   GenerationSpec  the AutoEvalAgent's eval set generation and the       *)
(*                   evaluation of a suite directory;                      *)
(*   ExampleSpec     the negative and stress example generators, which     *)
(*                   adjust the size of the generated input;               *)
(*   CostSpec        the reasoning cost service's POST /estimate           *)
(*                   (mcp-servers/mcp-reasoning-cost/server.py);           *)
(*   RedeploySpec    DetectSpec from the state in which an agent is cached *)
(*                   that has not run yet;                                 *)
(*   HashSpec        detect calls while executions with a cost are         *)
(*                   recorded.                                             *)
(***************************************************************************)
EXTENDS Integers, Sequences, FiniteSets, TLC

\* ------------------------------------------------------------------ bounds
\* distinct last-run timestamps the inventory reports
MaxTime == 2
\* detect calls per behaviour (time.time() readings)
MaxClock == 2
\* requests the inventory serves per behaviour
MaxChanges == 2
\* scheduler threads ever created in a behaviour
MaxWorkers == 2
\* generate_eval_set calls per behaviour
MaxGenerateCalls == 2

Agents == {"a1", "a2"}
AgentOrder == <<"a1", "a2">>      \* the inventory lists agents sorted by id
Descriptions == {1, 2}            \* the registration metadata an agent can have

None == "None"                    \* Python None for an agent_id argument
Scopes == {None, "a1"}            \* agent_id arguments: all agents, or one of them
NoHash == 0                       \* Python None for a config hash
NoTime == 0                       \* Python None for a last_run_time
NoDesc == 0                       \* the agent has no metadata entry

VARIABLES
    \* inventory service (external collaborator)
    agent_metadata,      \* [Agents -> Descriptions \cup {NoDesc}], NoDesc = not registered
    last_run,            \* [Agents -> 0..MaxTime], what /usage reports
    changes,             \* requests served by the inventory so far
    \* orchestrator process
    agent_state_cache,   \* _agent_state_cache, in memory
    state_file,          \* AGENT_STATE_FILE on disk
    clock,               \* time.time(), one tick per detect call
    pc,                  \* position inside react_cycle
    scope,               \* agent_id argument of the running cycle
    todo,                \* changed agents the ACT loop has not reached yet
    cycle_results,       \* the dict react_cycle builds and returns
    \* history, for stating the properties
    phases,              \* what the running cycle has executed: "observe", "think",
                         \* the agent of each react call, "observe_again"
    lastDetect,          \* what the most recent detect call made on its own saw and did
    owed,                \* agents a cycle reported changed and has not reacted to since
    auto_eval_available, \* the AutoEvalAgent import succeeded in this process
    \* scheduler
    scheduler_running,   \* _scheduler_running
    scheduler_thread,    \* _scheduler_thread: index of the last thread, 0 = None
    worker,              \* [1..MaxWorkers -> position of that worker thread]
    mainpc,              \* the main thread: "run", "join", "stopped", "exited"
    by_signal,           \* the running stop_scheduler was called by signal_handler
    cycle_end,           \* [1..MaxWorkers -> how that worker's last finished cycle ended]
    stop_seen,           \* [1..MaxWorkers -> a stop was requested during the cycle
                         \*  that worker has in flight]
    \* inventory service, the execution log
    execution_records,   \* [Agents -> sequence of the success flags recorded]
    runs_recorded,       \* history: executions recorded per agent since its last deletion
    failures_recorded,   \* history: those of them recorded with success = False
    lastDelete,          \* history: the most recent DELETE /agent request and its answer
    cost_records,        \* [Agents -> the cost_usd values recorded, those not None]
    \* AutoEvalAgent, the eval suite directory of one agent
    eval_suites,         \* [Categories -> the <set_type>.jsonl file]
    lastGenerate,        \* history: the most recent generate_eval_set call
    lastExample,         \* history: the most recent size-adjusted example generated
    \* reasoning cost service
    lastEstimate         \* the most recent POST /estimate: its trace and its answer

cycleVars == <<agent_metadata, last_run, changes, agent_state_cache, state_file, clock,
               pc, scope, todo, cycle_results, phases, lastDetect, owed,
               auto_eval_available>>
schedVars == <<scheduler_running, scheduler_thread, worker, mainpc, by_signal,
               cycle_end, stop_seen>>
serviceVars == <<execution_records, runs_recorded, failures_recorded, lastDelete,
                 cost_records, eval_suites, lastGenerate, lastExample, lastEstimate>>
vars == <<agent_metadata, last_run, changes, agent_state_cache, state_file, clock,
          pc, scope, todo, cycle_results, phases, lastDetect, owed,
          auto_eval_available,
          scheduler_running, scheduler_thread, worker, mainpc, by_signal,
          cycle_end, stop_seen,
          execution_records, runs_recorded, failures_recorded, lastDelete,
          cost_records, eval_suites, lastGenerate, lastExample, lastEstimate>>

\* ------------------------------------------------------- agent state cache
NoEntry == [config_hash |-> NoHash, last_run_time |-> NoTime, last_check_time |-> 0]
EmptyCache == [a \in Agents |-> NoEntry]
NoFile == [exists |-> FALSE, content |-> EmptyCache]

\* load_agent_state_cache: the file replaces the in-memory map when it exists;
\* a file that cannot be read leaves an empty map.
load_agent_state_cache(mem, file, loadFail) ==
    IF file.exists
    THEN IF loadFail THEN EmptyCache ELSE file.content
    ELSE mem

\* how a write of the cache file can go: it succeeds ("no"), the directory or
\* the file cannot be opened ("open"), or json.dump fails on the opened, already
\* truncated file ("dump")
SaveFailures == {"no", "open", "dump"}

\* the write only made when the call changed the in-memory map
save_agent_state_cache_if_new(mem, file, saveFail) ==
    IF saveFail = "no" /\ mem # agent_state_cache
    THEN [exists |-> TRUE, content |-> mem]
    ELSE file

\* save_agent_state_cache: a failed write is swallowed; it leaves the file as
\* it was, or a truncated file (which loads as an empty map)
save_agent_state_cache(mem, file, saveFail) ==
    CASE saveFail = "no" -> [exists |-> TRUE, content |-> mem]
      [] saveFail = "open" -> file
      [] OTHER -> [exists |-> TRUE, content |-> EmptyCache]

\* a cost_usd of None
NoCost == 0
\* the cost_usd values executions are recorded with
Costs == {NoCost, 1, 3}

RECURSIVE SumSeq(_)
SumSeq(xs) == IF xs = <<>> THEN 0 ELSE Head(xs) + SumSeq(Tail(xs))

\* update_agent_averages: avg_cost of the agent's listing entry, in
\* hundredths, from the costs recorded (None, here 0, when there are none)
avg_cost(a) ==
    IF cost_records[a] = <<>> THEN 0
    ELSE (100 * SumSeq(cost_records[a])) \div Len(cost_records[a])

\* get_agent_config_hash: md5 of the agent's entry in the /list_agents answer
\* (id, description, avg_cost, avg_latency; collision free here: one hash
\* value per entry), None when the lookup fails or the agent is not in the list.
get_agent_config_hash(a, hashFail) ==
    IF a \in hashFail \/ agent_metadata[a] = NoDesc
    THEN NoHash
    ELSE 10 + agent_metadata[a] + 1000 * avg_cost(a)

\* the /usage request of detect_agent_changes
usage_last_run(a, usageFail) ==
    IF a \in usageFail THEN NoTime ELSE last_run[a]

\* --------------------------------------------------- detect_agent_changes
\* the triggers with the redeployment check not asking for a cached run time
change_reasons_any_run(cached, current_hash, lr) ==
    (IF cached.config_hash # NoHash /\ cached.config_hash # current_hash
     THEN <<"config_changed">> ELSE <<>>)
    \o (IF lr # NoTime /\ lr # cached.last_run_time
        THEN <<"redeployed">> ELSE <<>>)
    \o (IF cached.config_hash = NoHash THEN <<"new_agent">> ELSE <<>>)

\* the three triggers, in the order the code appends them
change_reasons(cached, current_hash, lr) ==
    (IF cached.config_hash # NoHash /\ cached.config_hash # current_hash
     THEN <<"config_changed">> ELSE <<>>)
    \o (IF lr # NoTime /\ cached.last_run_time # NoTime /\ lr # cached.last_run_time
        THEN <<"redeployed">> ELSE <<>>)
    \o (IF cached.config_hash = NoHash THEN <<"new_agent">> ELSE <<>>)

\* the entry written with the hash the cache held instead of the fresh one
updated_entry_stale(cached, current_hash, lr, now) ==
    [config_hash |-> cached.config_hash, last_run_time |-> lr, last_check_time |-> now]

\* the cache entry written for an agent that is reported
updated_entry(cached, current_hash, lr, now) ==
    [config_hash |-> current_hash, last_run_time |-> lr, last_check_time |-> now]

\* the cache entry of an inspected agent after its loop iteration: the
\* "Update cache" assignment sits inside `if has_changed:`
cache_after_agent(cached, current_hash, lr, now) ==
    IF change_reasons(cached, current_hash, lr) # <<>>
    THEN updated_entry(cached, current_hash, lr, now)
    ELSE cached

\* `if agent_id and agent_id_to_check != agent_id: continue`
in_scope(agent_id, a) == agent_id = None \/ a = agent_id

\* What can go wrong in one detect call: the cache file cannot be read, the
\* inventory cannot be listed, the hash lookup or the usage request of some
\* agents fails, the cache file cannot be written.  Only failures that the
\* call can meet are enumerated (no read failure without a file, no lookup
\* failure for an agent the loop does not reach).
AllFailures ==
    [listFail : BOOLEAN, loadFail : BOOLEAN, saveFail : SaveFailures,
     hashFail : SUBSET Agents, usageFail : SUBSET Agents]

Failures(agent_id) ==
    LET reach == {a \in Agents : agent_metadata[a] # NoDesc /\ in_scope(agent_id, a)}
    IN  {f \in AllFailures :
           /\ f.hashFail \subseteq reach
           /\ f.usageFail \subseteq reach
           /\ f.loadFail => state_file.exists
           /\ f.listFail => (f.saveFail = "no" /\ f.hashFail = {} /\ f.usageFail = {})
           /\ f.usageFail \cap f.hashFail = {}
           /\ \A a \in f.usageFail : last_run[a] # NoTime}

\* the failures of the whole call only: inside a cycle the per-agent lookups
\* are taken to succeed (DetectSpec explores their failures)
CallFailures(agent_id) ==
    {f \in Failures(agent_id) : f.hashFail = {} /\ f.usageFail = {}}

\* the loop leaving at the first agent whose hash lookup fails, instead of
\* going on to the next agent
inspected_agents_until_failure(agent_id, listing, hashOf) ==
    {a \in listing :
       /\ in_scope(agent_id, a)
       /\ \A i \in 1..Len(AgentOrder) :
             (AgentOrder[i] \in listing /\ in_scope(agent_id, AgentOrder[i])
                 /\ hashOf[AgentOrder[i]] = NoHash)
             => \E j \in 1..(i - 1) : AgentOrder[j] = a}

\* the agents whose loop iteration gets past both `continue` statements: in
\* scope, and with a config hash
inspected_agents(agent_id, listing, hashOf) ==
    {a \in listing : in_scope(agent_id, a) /\ hashOf[a] # NoHash}

\* One call of detect_agent_changes(agent_id) at time `now`, starting from the
\* in-memory cache `mem` and the file `file`.  The record holds the returned
\* dict (status, changed_agents), the cache and file the call leaves behind,
\* and what the call saw (loaded, listing, hashOf, runOf, inspected, and
\* from_file: the cache file existed when the call loaded it).
detect_agent_changes(agent_id, mem, file, f, now) ==
    LET loaded == load_agent_state_cache(mem, file, f.loadFail)
        listing == {a \in Agents : agent_metadata[a] # NoDesc}
        hashOf == [a \in Agents |-> get_agent_config_hash(a, f.hashFail)]
        runOf == [a \in Agents |-> usage_last_run(a, f.usageFail)]
        inspected == inspected_agents(agent_id, listing, hashOf)
        isChanged(a) == /\ a \in inspected
                        /\ change_reasons(loaded[a], hashOf[a], runOf[a]) # <<>>
        sel == SelectSeq(AgentOrder, isChanged)
        changed == [i \in 1..Len(sel) |->
                      [agent_id |-> sel[i],
                       description |-> agent_metadata[sel[i]],
                       change_reasons |->
                           change_reasons(loaded[sel[i]], hashOf[sel[i]], runOf[sel[i]]),
                       previous_hash |-> loaded[sel[i]].config_hash,
                       current_hash |-> hashOf[sel[i]]]]
        newCache == [a \in Agents |->
                       IF a \in inspected
                       THEN cache_after_agent(loaded[a], hashOf[a], runOf[a], now)
                       ELSE loaded[a]]
    IN  IF f.listFail
        THEN [status |-> "error", changed_agents |-> <<>>, agent_id |-> agent_id,
              loaded |-> loaded, listing |-> {}, hashOf |-> [a \in Agents |-> NoHash],
              runOf |-> [a \in Agents |-> NoTime], inspected |-> {},
              cache |-> loaded, saved |-> FALSE, now |-> now, from_file |-> file.exists]
        ELSE [status |-> "success", changed_agents |-> changed, agent_id |-> agent_id,
              loaded |-> loaded, listing |-> listing, hashOf |-> hashOf,
              runOf |-> runOf, inspected |-> inspected,
              cache |-> newCache, saved |-> f.saveFail = "no", now |-> now,
              from_file |-> file.exists]

NoDetect ==
    [status |-> "none", changed_agents |-> <<>>, agent_id |-> None,
     loaded |-> EmptyCache, listing |-> {}, hashOf |-> [a \in Agents |-> NoHash],
     runOf |-> [a \in Agents |-> NoTime], inspected |-> {},
     cache |-> EmptyCache, saved |-> FALSE, now |-> 0, from_file |-> FALSE]

\* the dict detect returns
detect_result(d) == [status |-> d.status, changed_agents |-> d.changed_agents]
NoResult == [status |-> "none", changed_agents |-> <<>>]

ReportedBy(d) == {d.changed_agents[i].agent_id : i \in 1..Len(d.changed_agents)}

\* ------------------------------------------------- react_to_agent_changes
\* what the pytest subprocess of run_regression_test does: exit code 0, any
\* other exit code, or subprocess.run raising (timeout, no interpreter)
PytestOutcomes == {"passed", "failed", "exception"}
\* what generate_eval_set returns; its wrapper catches every exception
GenerationOutcomes == {"success", "skipped", "error"}

\* run_regression_test(agent_id, method="pytest"): the outcome of the run goes
\* into test_results["pytest"]; the status of the returned dict is set once,
\* to "success"
run_regression_test(pytest) ==
    [status |-> "success",
     pytest |-> IF pytest = "passed" THEN "success" ELSE "error"]

NoRegression == [status |-> "none", pytest |-> "none"]

SeqContains(s, x) == \E i \in 1..Len(s) : s[i] = x

\* the arguments of the generate_eval_set call of ACTION 2
NoRequest == [set_type |-> "none", count |-> 0, force_regenerate |-> FALSE]
negative_request == [set_type |-> "negative", count |-> 600, force_regenerate |-> FALSE]

NoReact == [status |-> "none", change_reasons |-> <<>>, actions_taken |-> <<>>]

\* ACTION 1 guarded by the configuration change alone
wants_regression_config_only(reasons) == SeqContains(reasons, "config_changed")

\* the condition of ACTION 1
wants_regression(reasons) ==
    \/ SeqContains(reasons, "config_changed")
    \/ SeqContains(reasons, "redeployed")
    \/ SeqContains(reasons, "new_agent")

\* regression is the dict run_regression_test returns, negative the status of
\* the dict generate_eval_set returns; "raise" stands for an exception
\* escaping the call (neither callee lets one out)
react_to_agent_changes(reasons, available, regression, negative) ==
    LET wantsRegression == wants_regression(reasons)
        act1 == IF wantsRegression
                THEN <<[action |-> "regression_test_positive",
                        status |-> IF regression.status = "success"
                                   THEN "success" ELSE "error",
                        result |-> regression,
                        request |-> NoRequest]>>
                ELSE <<>>
        act2 == <<[action |-> "generate_negative_tests",
                   status |-> IF negative \in {"success", "skipped"}
                              THEN negative ELSE "error",
                   result |-> NoRegression,
                   request |-> negative_request]>>
    IN  IF ~available
        THEN [status |-> "error", change_reasons |-> <<>>, actions_taken |-> <<>>]
        ELSE IF wantsRegression /\ regression.status = "raise"
        THEN [status |-> "error", change_reasons |-> reasons, actions_taken |-> <<>>]
        ELSE IF negative = "raise"
        THEN [status |-> "error", change_reasons |-> reasons, actions_taken |-> act1]
        ELSE [status |-> "success", change_reasons |-> reasons,
              actions_taken |-> act1 \o act2]

\* ------------------------------------------------------------ react_cycle
NoActions == [status |-> "none", by_agent |-> [a \in Agents |-> NoReact]]
NoChangesActions == [status |-> "no_changes", by_agent |-> [a \in Agents |-> NoReact]]

NewCycleResults ==
    [status |-> "success", observations |-> NoResult, actions |-> NoActions,
     final_observations |-> NoResult]

\* the THINK step without its short-circuit
no_changes_never(changed_agents) == FALSE

\* `if not changed_agents:` of the THINK step
no_changes(changed_agents) == changed_agents = <<>>

\* the status the cycle ends with after the ACT loop
cycle_status(actions) ==
    IF \E a \in Agents : /\ actions.by_agent[a].status # "none"
                         /\ actions.by_agent[a].status # "success"
    THEN "partial_success"
    ELSE "success"

\* STEP 1 and STEP 2: react_cycle(agent_id) runs the first detect and thinks
CycleObserve(agent_id, f) ==
    /\ pc = "idle"
    /\ clock < MaxClock
    /\ f \in CallFailures(agent_id)
    /\ \E d \in {detect_agent_changes(agent_id, agent_state_cache, state_file, f, clock + 1)} :
           /\ agent_state_cache' = d.cache
           /\ state_file' = IF d.status = "success"
                            THEN save_agent_state_cache(d.cache, state_file, f.saveFail)
                            ELSE state_file
           /\ clock' = clock + 1
           /\ scope' = agent_id
           /\ owed' = owed \cup ReportedBy(d)
           /\ IF d.status # "success"
              THEN /\ cycle_results' = [NewCycleResults EXCEPT
                                          !.status = "error",
                                          !.observations = detect_result(d)]
                   /\ phases' = <<"observe">>
                   /\ pc' = "done"
                   /\ todo' = <<>>
              ELSE IF no_changes(d.changed_agents)
              THEN /\ cycle_results' = [NewCycleResults EXCEPT
                                          !.observations = detect_result(d),
                                          !.actions = NoChangesActions]
                   /\ phases' = <<"observe", "think">>
                   /\ pc' = "done"
                   /\ todo' = <<>>
              ELSE /\ cycle_results' = [NewCycleResults EXCEPT
                                          !.observations = detect_result(d)]
                   /\ phases' = <<"observe", "think">>
                   /\ pc' = "act"
                   /\ todo' = d.changed_agents
    /\ UNCHANGED <<agent_metadata, last_run, changes, lastDetect, auto_eval_available>>
    /\ UNCHANGED schedVars
    /\ UNCHANGED serviceVars

\* STEP 3: one iteration of the ACT loop
CycleAct(pytest, negative) ==
    /\ pc = "act"
    /\ todo # <<>>
    /\ LET changed_agent == Head(todo)
           action_result == react_to_agent_changes(changed_agent.change_reasons,
                                auto_eval_available, run_regression_test(pytest),
                                negative)
       IN  /\ cycle_results' = [cycle_results EXCEPT
                  !.actions = [status |-> "taken",
                               by_agent |-> [cycle_results.actions.by_agent EXCEPT
                                               ![changed_agent.agent_id] = action_result]]]
           /\ owed' = owed \ {changed_agent.agent_id}
    /\ todo' = Tail(todo)
    /\ phases' = Append(phases, Head(todo).agent_id)
    /\ UNCHANGED <<agent_metadata, last_run, changes, agent_state_cache, state_file, clock,
                   pc, scope, lastDetect, auto_eval_available>>
    /\ UNCHANGED schedVars
    /\ UNCHANGED serviceVars

\* the cycle returning after the ACT loop, STEP 4 left out
CycleObserveAgain_skipped(f) ==
    /\ pc = "act"
    /\ todo = <<>>
    /\ ~f.listFail /\ ~f.loadFail /\ f.saveFail = "no"
    /\ cycle_results' = [cycle_results EXCEPT
                            !.status = cycle_status(cycle_results.actions)]
    /\ pc' = "done"
    /\ UNCHANGED <<agent_metadata, last_run, changes, agent_state_cache, state_file,
                   clock, scope, todo, phases, lastDetect, owed, auto_eval_available>>
    /\ UNCHANGED schedVars
    /\ UNCHANGED serviceVars

\* STEP 4: the second detect, then the status update and the return
CycleObserveAgain(f) ==
    /\ pc = "act"
    /\ todo = <<>>
    /\ clock < MaxClock
    /\ f \in CallFailures(scope)
    /\ \E d \in {detect_agent_changes(scope, agent_state_cache, state_file, f, clock + 1)} :
           /\ agent_state_cache' = d.cache
           /\ state_file' = IF d.status = "success"
                            THEN save_agent_state_cache(d.cache, state_file, f.saveFail)
                            ELSE state_file
           /\ clock' = clock + 1
           /\ owed' = owed \cup ReportedBy(d)
           /\ cycle_results' = [cycle_results EXCEPT
                                  !.final_observations = detect_result(d),
                                  !.status = cycle_status(cycle_results.actions)]
    /\ phases' = Append(phases, "observe_again")
    /\ pc' = "done"
    /\ UNCHANGED <<agent_metadata, last_run, changes, scope, todo, lastDetect,
                   auto_eval_available>>
    /\ UNCHANGED schedVars
    /\ UNCHANGED serviceVars

\* detect_agent_changes called on its own (it is one of the orchestrator
\* agent's tools), outside a cycle
Detect(agent_id, f) ==
    /\ pc = "idle"
    /\ clock < MaxClock
    /\ f \in Failures(agent_id)
    /\ \E d \in {detect_agent_changes(agent_id, agent_state_cache, state_file, f, clock + 1)} :
           /\ agent_state_cache' = d.cache
           /\ state_file' = IF d.status = "success"
                            THEN save_agent_state_cache(d.cache, state_file, f.saveFail)
                            ELSE state_file
           /\ clock' = clock + 1
           /\ lastDetect' = d
    /\ UNCHANGED <<agent_metadata, last_run, changes, pc, scope, todo, cycle_results,
                   phases, owed, auto_eval_available>>
    /\ UNCHANGED schedVars
    /\ UNCHANGED serviceVars

\* react_cycle returns; the caller prints the dict and drops it
CycleReturn ==
    /\ pc = "done"
    /\ pc' = "idle"
    /\ scope' = None
    /\ cycle_results' = NewCycleResults
    /\ phases' = <<>>
    /\ UNCHANGED <<agent_metadata, last_run, changes, agent_state_cache, state_file, clock,
                   todo, lastDetect, owed, auto_eval_available>>
    /\ UNCHANGED schedVars
    /\ UNCHANGED serviceVars

\* The process dies and is started again: module state is rebuilt, the file stays.
Crash ==
    /\ agent_state_cache' = EmptyCache
    /\ pc' = "idle"
    /\ scope' = None
    /\ todo' = <<>>
    /\ cycle_results' = NewCycleResults
    /\ phases' = <<>>
    /\ \/ pc # "idle"
       \/ agent_state_cache # EmptyCache
    /\ UNCHANGED <<agent_metadata, last_run, changes, state_file, clock, lastDetect, owed,
                   auto_eval_available>>
    /\ UNCHANGED schedVars
    /\ UNCHANGED serviceVars

\* ------------------------------------------------------ inventory service
\* POST /register_agent
register_agent(a, description) ==
    /\ agent_metadata[a] # description
    /\ agent_metadata' = [agent_metadata EXCEPT ![a] = description]
    /\ changes < MaxChanges
    /\ changes' = changes + 1
    /\ UNCHANGED <<last_run, agent_state_cache, state_file, clock, pc, scope, todo,
                   cycle_results, phases, lastDetect, owed,
                   auto_eval_available>>
    /\ UNCHANGED schedVars
    /\ UNCHANGED serviceVars

\* POST /record_execution: appends the execution (here its success flag and
\* its cost_usd, NoCost for None) to the agent's log; first-seen agents get a
\* default entry
record_execution(a, success, cost_usd) ==
    /\ last_run[a] < MaxTime
    /\ last_run' = [last_run EXCEPT ![a] = last_run[a] + 1]
    /\ agent_metadata' = [agent_metadata EXCEPT
                            ![a] = IF agent_metadata[a] = NoDesc THEN 1 ELSE @]
    /\ changes < MaxChanges
    /\ changes' = changes + 1
    /\ execution_records' = [execution_records EXCEPT ![a] = Append(@, success)]
    /\ runs_recorded' = [runs_recorded EXCEPT ![a] = @ + 1]
    /\ failures_recorded' = [failures_recorded EXCEPT
                               ![a] = IF success THEN @ ELSE @ + 1]
    /\ UNCHANGED <<agent_state_cache, state_file, clock, pc, scope, todo,
                   cycle_results, phases, lastDetect, owed,
                   auto_eval_available>>
    /\ cost_records' = [cost_records EXCEPT
                          ![a] = IF cost_usd = NoCost THEN @ ELSE Append(@, cost_usd)]
    /\ UNCHANGED schedVars
    /\ UNCHANGED <<lastDelete, eval_suites, lastGenerate, lastExample, lastEstimate>>

NoDelete == [agent_id |-> None, status_code |-> 0, tick |-> FALSE]

\* the answer of a DELETE /agent request, as the history keeps it
delete_answer(a) ==
    [agent_id |-> a,
     status_code |-> IF agent_metadata[a] = NoDesc THEN 404 ELSE 200,
     tick |-> ~lastDelete.tick]

\* DELETE /agent/{agent_id} that leaves the execution log behind
delete_agent_keep_records(a) ==
    /\ lastDelete' = delete_answer(a)
    /\ agent_metadata' = [agent_metadata EXCEPT ![a] = NoDesc]
    /\ last_run' = [last_run EXCEPT ![a] = NoTime]
    /\ runs_recorded' = [runs_recorded EXCEPT ![a] = 0]
    /\ failures_recorded' = [failures_recorded EXCEPT ![a] = 0]
    /\ UNCHANGED <<changes, agent_state_cache, state_file, clock, pc, scope, todo,
                   cycle_results, phases, lastDetect, owed, auto_eval_available>>
    /\ UNCHANGED schedVars
    /\ UNCHANGED <<execution_records, cost_records, eval_suites, lastGenerate,
                   lastExample, lastEstimate>>

\* DELETE /agent/{agent_id} that empties the whole execution log store
delete_agent_clear_all(a) ==
    /\ lastDelete' = delete_answer(a)
    /\ agent_metadata' = [agent_metadata EXCEPT ![a] = NoDesc]
    /\ execution_records' = [b \in Agents |-> <<>>]
    /\ cost_records' = [b \in Agents |-> <<>>]
    /\ last_run' = [last_run EXCEPT ![a] = NoTime]
    /\ runs_recorded' = [runs_recorded EXCEPT ![a] = 0]
    /\ failures_recorded' = [failures_recorded EXCEPT ![a] = 0]
    /\ UNCHANGED <<changes, agent_state_cache, state_file, clock, pc, scope, todo,
                   cycle_results, phases, lastDetect, owed, auto_eval_available>>
    /\ UNCHANGED schedVars
    /\ UNCHANGED <<eval_suites, lastGenerate, lastExample, lastEstimate>>

\* DELETE /agent/{agent_id}: 404 for an agent the store does not know, with
\* nothing changed; otherwise the entry and the execution log of the agent
\* are removed
delete_agent(a) ==
    /\ lastDelete' = delete_answer(a)
    /\ IF agent_metadata[a] = NoDesc
       THEN UNCHANGED <<agent_metadata, execution_records, cost_records, last_run,
                        runs_recorded, failures_recorded>>
       ELSE /\ agent_metadata' = [agent_metadata EXCEPT ![a] = NoDesc]
            /\ execution_records' = [execution_records EXCEPT ![a] = <<>>]
            /\ cost_records' = [cost_records EXCEPT ![a] = <<>>]
            /\ last_run' = [last_run EXCEPT ![a] = NoTime]
            /\ runs_recorded' = [runs_recorded EXCEPT ![a] = 0]
            /\ failures_recorded' = [failures_recorded EXCEPT ![a] = 0]
    /\ UNCHANGED <<changes, agent_state_cache, state_file, clock, pc, scope, todo,
                   cycle_results, phases, lastDetect, owed, auto_eval_available>>
    /\ UNCHANGED schedVars
    /\ UNCHANGED <<eval_suites, lastGenerate, lastExample, lastEstimate>>

\* the number of False flags in an execution log
RECURSIVE CountFailures(_)
CountFailures(records) ==
    IF records = <<>> THEN 0
    ELSE (IF Head(records) THEN 0 ELSE 1) + CountFailures(Tail(records))

\* GET /usage?agent=a: 404 for an agent without an entry, the zeroed summary
\* for an agent without records, otherwise the counts over its log
get_agent_usage(a) ==
    IF agent_metadata[a] = NoDesc
    THEN [status_code |-> 404, total_runs |-> 0, failures |-> 0]
    ELSE IF execution_records[a] = <<>>
    THEN [status_code |-> 200, total_runs |-> 0, failures |-> 0]
    ELSE [status_code |-> 200, total_runs |-> Len(execution_records[a]),
          failures |-> CountFailures(execution_records[a])]

\* the store as the inventory server starts: both dicts empty
InventoryInit ==
    /\ execution_records = [a \in Agents |-> <<>>]
    /\ runs_recorded = [a \in Agents |-> 0]
    /\ failures_recorded = [a \in Agents |-> 0]
    /\ lastDelete = NoDelete
    /\ cost_records = [a \in Agents |-> <<>>]

\* ------------------------------------------- AutoEvalAgent: eval sets
Categories == {"positive", "negative", "adversarial", "stress"}
\* the order in which the evaluator goes through the files of a suite
CategoryOrder == <<"positive", "negative", "adversarial", "stress">>
\* the numbers of examples asked for
Counts == {1, 2}
\* what the generation collaborator does for one example: its answer holds a
\* JSON object, its answer cannot be parsed, or the call raises
SlotOutcomes == {"json", "text", "raise"}

NoEvalFile == [exists |-> FALSE, examples |-> <<>>]

\* the literal example each generator falls back to
fallback_example(set_type) ==
    CASE set_type = "positive" -> "fallback_positive"
      [] set_type = "negative" -> "fallback_negative"
      [] set_type = "adversarial" -> "fallback_adversarial"
      [] set_type = "stress" -> "fallback_stress"

\* a generator without its outer try/except: the exception of the
\* collaborator gets out
generate_example_llm_unguarded(set_type, outcome) ==
    IF outcome = "json" THEN "generated"
    ELSE IF outcome = "text" THEN fallback_example(set_type)
    ELSE "raise"

\* generate_<set_type>_example_llm: the parsed object, or the fallback when
\* the answer cannot be parsed or anything raises
generate_example_llm(set_type, outcome) ==
    IF outcome = "json" THEN "generated" ELSE fallback_example(set_type)

\* the existence check answering no whatever is on disk
check_if_eval_set_exists_never(file) == FALSE

\* check_if_eval_set_exists
check_if_eval_set_exists(file) == file.exists

\* generate_eval_set of generate_eval_sets.py (imported as generate_set):
\* slots[i] is what the collaborator does for example i, writeFail that the
\* .jsonl file cannot be opened for writing (the exception leaves the function)
generate_set(file, set_type, count, force_regenerate, slots, writeFail) ==
    LET made == [i \in 1..count |-> generate_example_llm(set_type, slots[i])]
        kept(x) == x # "raise"
        examples == SelectSeq(made, kept)
    IN  IF ~force_regenerate /\ check_if_eval_set_exists(file)
        THEN [status |-> "skipped", file |-> file, generated |-> 0, llm_calls |-> 0,
              output_file_jsonl |-> set_type]
        ELSE IF writeFail
        THEN [status |-> "raise", file |-> file, generated |-> 0, llm_calls |-> count,
              output_file_jsonl |-> "none"]
        ELSE [status |-> "success", file |-> [exists |-> TRUE, examples |-> examples],
              generated |-> Len(examples), llm_calls |-> count,
              output_file_jsonl |-> set_type]

NoGenerate ==
    [call |-> 0, status |-> "none", set_type |-> "none", count |-> 0,
     force_regenerate |-> FALSE, slots |-> <<>>, existed |-> FALSE, unchanged |-> TRUE, llm_calls |-> 0,
     output_file_jsonl |-> "none"]

\* generate_eval_set of agent.py: passes a skipped result on, reports success
\* with the count asked for, and turns every exception into an error status
generate_eval_set(set_type, count, force_regenerate, slots, writeFail) ==
    LET result == generate_set(eval_suites[set_type], set_type, count,
                               force_regenerate, slots, writeFail)
    IN  /\ lastGenerate.call < MaxGenerateCalls
        /\ eval_suites' = [eval_suites EXCEPT ![set_type] = result.file]
        /\ lastGenerate' =
              [call |-> lastGenerate.call + 1,
               status |-> IF result.status = "raise" THEN "error" ELSE result.status,
               set_type |-> set_type, count |-> count,
               force_regenerate |-> force_regenerate, slots |-> slots,
               existed |-> eval_suites[set_type].exists,
               unchanged |-> (result.file = eval_suites[set_type]),
               llm_calls |-> result.llm_calls,
               output_file_jsonl |-> result.output_file_jsonl]
        /\ UNCHANGED cycleVars
        /\ UNCHANGED schedVars
        /\ UNCHANGED <<execution_records, runs_recorded, failures_recorded, lastDelete,
                       cost_records, lastExample, lastEstimate>>

\* evaluate_example: the status is set from the set type alone
evaluate_example(set_type) ==
    CASE set_type = "positive" -> [expected |-> "PASS", status |-> "pass"]
      [] set_type = "negative" -> [expected |-> "FAIL", status |-> "fail"]
      [] set_type = "adversarial" ->
            [expected |-> "CONSISTENT_AND_HALLUCINATION_FREE", status |-> "pass"]
      [] OTHER -> [expected |-> "HANDLE_LOAD", status |-> "pass"]

\* the examples of the files CategoryOrder[i..], each with its set type
RECURSIVE load_examples(_, _)
load_examples(suites, i) ==
    IF i > Len(CategoryOrder) THEN <<>>
    ELSE (IF suites[CategoryOrder[i]].exists
          THEN [k \in 1..Len(suites[CategoryOrder[i]].examples) |-> CategoryOrder[i]]
          ELSE <<>>)
         \o load_examples(suites, i + 1)

\* run_evaluation_pytest on a suite directory: every example of every file
\* present is evaluated; those whose status is "pass" count as passed, all
\* others as failed
run_evaluation_pytest(suites) ==
    LET cases == load_examples(suites, 1)
        isPass(c) == evaluate_example(c).status = "pass"
        isOther(c) == evaluate_example(c).status # "pass"
    IN  [total |-> Len(cases),
         passed |-> Len(SelectSeq(cases, isPass)),
         failed |-> Len(SelectSeq(cases, isOther)),
         detailed_results |-> [k \in 1..Len(cases) |-> evaluate_example(cases[k])]]

\* -------------------------- AutoEvalAgent: size-adjusted example generators
\* the input field of a generated example: a string of `size` characters
\* (`escaped` of them written with a backslash by json.dumps), a dict whose
\* serialisation has `size` characters (`strs` of them inside its string
\* values), a value of another JSON type, or no input field at all
StrInputs ==
    {[kind |-> "str", size |-> n, strs |-> 0, escaped |-> x] :
        n \in {0, 1, 10}, x \in {0, 1}} \ {[kind |-> "str", size |-> 0, strs |-> 0, escaped |-> 1]}
DictInputs ==
    {[kind |-> "dict", size |-> 2, strs |-> 0, escaped |-> 0],
     [kind |-> "dict", size |-> 12, strs |-> 0, escaped |-> 0],
     [kind |-> "dict", size |-> 12, strs |-> 4, escaped |-> 0]}
OtherInputs == {[kind |-> "other", size |-> 1, strs |-> 0, escaped |-> 0]}
MissingInput == [kind |-> "missing", size |-> 0, strs |-> 0, escaped |-> 0]
GeneratedInputs == StrInputs \cup DictInputs \cup OtherInputs \cup {MissingInput}

\* json.dumps(example.get("input", {})): the length of the serialised input
json_dumps_len(input) ==
    CASE input.kind = "str" -> input.size + input.escaped + 2
      [] input.kind = "missing" -> 2
      [] OTHER -> input.size

\* `text * n` for a Python string
repeat_len(len, n) == IF n <= 0 THEN 0 ELSE len * n

\* input_tokens the token-count collaborator (or its words * 4 fallback)
\* reports for a serialised input; 0 also stands for an answer without the key
TokenCounts == {0, 1, 400, 790, 800, 4095, 4096, 5000}
\* the threshold of the token_overflow expansion
OverflowThreshold == 4096
\* target_tokens = random.randint(min_tokens, max_tokens)
TargetTokens == {512, 1000, 4096}
NegativeTypes == {"corrupt_json", "reversed_instructions", "misleading_labels",
                  "missing_fields", "token_overflow"}

\* the input of the negative fallback example, "{This is broken JSON and missing id}"
negative_fallback_input == [kind |-> "str", size |-> 36, strs |-> 0, escaped |-> 0]
\* the input of a stress fallback example: built from the target and the stress
\* type, not from the generated input; its size is not tracked
stress_fallback_input == [kind |-> "fallback", size |-> 0, strs |-> 0, escaped |-> 0]

\* the comparison with the threshold turned around
overflow_expands_above(tokens) == tokens >= OverflowThreshold

\* if token_count.get("input_tokens", 0) < 4096
overflow_expands(tokens) == tokens < OverflowThreshold

\* generate_negative_example_llm: the input of the example it returns, and
\* whether the example is the generated one or the fallback
negative_example(negative_type, outcome, generated, tokens) ==
    IF outcome = "json"
    THEN [source |-> "llm",
          input |-> IF negative_type = "token_overflow" /\ overflow_expands(tokens)
                    THEN [kind |-> "str", size |-> repeat_len(json_dumps_len(generated), 5),
                          strs |-> 0, escaped |-> 0]
                    ELSE generated]
    ELSE [source |-> "fallback", input |-> negative_fallback_input]

\* multiplier = int((target_tokens / actual_tokens) * 1.5), for actual_tokens
\* # 0 (over the range of targets the float expression equals this quotient)
stress_multiplier(target_tokens, actual_tokens) ==
    (3 * target_tokens) \div (2 * actual_tokens)

\* generate_stress_example_llm: the input of the example it returns, and
\* whether the example is the generated one or a fallback
stress_example(target_tokens, outcome, generated, actual_tokens) ==
    IF outcome = "json"
    THEN IF 5 * actual_tokens < 4 * target_tokens
         THEN IF actual_tokens = 0
              THEN \* ZeroDivisionError, caught by the outer except
                   [source |-> "fallback", input |-> stress_fallback_input]
              ELSE LET multiplier == stress_multiplier(target_tokens, actual_tokens)
                   IN  [source |-> "llm",
                        input |->
                          CASE generated.kind = "str" ->
                                 [generated EXCEPT !.size = repeat_len(@, multiplier),
                                                   !.escaped = repeat_len(@, multiplier)]
                            [] generated.kind = "dict" ->
                                 [generated EXCEPT
                                    !.size = @ - generated.strs
                                               + repeat_len(generated.strs, multiplier),
                                    !.strs = repeat_len(@, multiplier)]
                            [] OTHER -> generated]
         ELSE [source |-> "llm", input |-> generated]
    ELSE [source |-> "fallback", input |-> stress_fallback_input]

NoExample ==
    [set_type |-> "none", subtype |-> "none", target_tokens |-> 0, outcome |-> "none",
     generated |-> MissingInput, tokens |-> 0, source |-> "none",
     input |-> MissingInput]

\* one call of generate_negative_example_llm
generate_negative_example_llm(negative_type, outcome, generated, tokens) ==
    /\ lastExample' =
         [set_type |-> "negative", subtype |-> negative_type, target_tokens |-> 0,
          outcome |-> outcome, generated |-> generated, tokens |-> tokens,
          source |-> negative_example(negative_type, outcome, generated, tokens).source,
          input |-> negative_example(negative_type, outcome, generated, tokens).input]
    /\ UNCHANGED cycleVars
    /\ UNCHANGED schedVars
    /\ UNCHANGED <<execution_records, runs_recorded, failures_recorded, lastDelete,
                   cost_records, eval_suites, lastGenerate, lastEstimate>>

\* one call of generate_stress_example_llm
generate_stress_example_llm(target_tokens, outcome, generated, actual_tokens) ==
    /\ lastExample' =
         [set_type |-> "stress", subtype |-> "none", target_tokens |-> target_tokens,
          outcome |-> outcome, generated |-> generated, tokens |-> actual_tokens,
          source |-> stress_example(target_tokens, outcome, generated, actual_tokens).source,
          input |-> stress_example(target_tokens, outcome, generated, actual_tokens).input]
    /\ UNCHANGED cycleVars
    /\ UNCHANGED schedVars
    /\ UNCHANGED <<execution_records, runs_recorded, failures_recorded, lastDelete,
                   cost_records, eval_suites, lastGenerate, lastEstimate>>

\* ---------------------------------------------------- reasoning cost service
\* the largest steps and tool_calls of the traces estimated, and the largest
\* tokens_in_trace in units of TokenUnit
MaxSteps == 21
MaxToolCalls == 11
MaxTokenUnits == 7
TokenUnit == 50
TraceTokens == {-1} \cup {TokenUnit * k : k \in 0..MaxTokenUnits}

\* round(x, 2) of a quotient num / den (den > 0) in hundredths: the nearest
\* integer, either neighbour when the quotient lies halfway (the float may
\* sit on either side)
round_div(num, den) ==
    LET q == num \div den
        r == num % den
    IN  IF 2 * r < den THEN {q}
        ELSE IF 2 * r > den THEN {q + 1}
        ELSE {q, q + 1}

Min(x, y) == IF x <= y THEN x ELSE y

\* calculate_expansion_factor, in hundredths: BASE_TOKENS / BASE_STEPS = 100
\* expected tokens per step, min(round(tokens / (steps * 100), 2), 3.0)
calculate_expansion_factor(tokens_in_trace, steps) ==
    IF steps = 0 THEN {100}
    ELSE {Min(h, 300) : h \in round_div(tokens_in_trace, steps)}

\* calculate_cost_score, in hundredths: the three weighted parts are summed in
\* units of 0.0001 and rounded to two places
calculate_cost_score(steps, tool_calls, tokens_in_trace, expansion_factor) ==
    LET steps_score == Min(steps, 20) * 200
        tool_score == Min(tool_calls, 10) * 300
        expansion_score == Min((expansion_factor - 100) * 15, 3000)
    IN  round_div(steps_score + tool_score + expansion_score, 100)

\* the cost scores POST /estimate can answer a valid trace with
cost_scores(steps, tool_calls, tokens_in_trace) ==
    UNION {calculate_cost_score(steps, tool_calls, tokens_in_trace, ef) :
             ef \in calculate_expansion_factor(tokens_in_trace, steps)}

NoEstimate ==
    [status_code |-> 0, steps |-> 0, tool_calls |-> 0, tokens_in_trace |-> 0,
     expansion_factor |-> 0, cost_score |-> 0]

\* POST /estimate for the trace that was posted: 400 for a negative field,
\* otherwise the expansion factor and the cost score of the trace
estimate_reasoning_cost ==
    /\ lastEstimate.status_code = 0
    /\ LET trace == lastEstimate
       IN  IF trace.steps < 0 \/ trace.tool_calls < 0 \/ trace.tokens_in_trace < 0
           THEN lastEstimate' = [trace EXCEPT !.status_code = 400]
           ELSE \E ef \in calculate_expansion_factor(trace.tokens_in_trace, trace.steps) :
                \E cs \in calculate_cost_score(trace.steps, trace.tool_calls,
                                               trace.tokens_in_trace, ef) :
                    lastEstimate' = [trace EXCEPT !.status_code = 200,
                                                  !.expansion_factor = ef,
                                                  !.cost_score = cs]
    /\ UNCHANGED cycleVars
    /\ UNCHANGED schedVars
    /\ UNCHANGED <<execution_records, runs_recorded, failures_recorded, lastDelete,
                   cost_records, eval_suites, lastGenerate, lastExample>>

GenerationInit ==
    /\ eval_suites = [c \in Categories |-> NoEvalFile]
    /\ lastGenerate = NoGenerate

StoreInit ==
    /\ InventoryInit
    /\ GenerationInit
    /\ lastExample = NoExample

ServiceInit ==
    /\ StoreInit
    /\ lastEstimate = NoEstimate

\* ------------------------------------------------------------------- Spec
SchedInit ==
    /\ scheduler_running = FALSE
    /\ scheduler_thread = 0
    /\ worker = [w \in 1..MaxWorkers |-> "unborn"]
    /\ mainpc = "run"
    /\ by_signal = FALSE
    /\ cycle_end = [w \in 1..MaxWorkers |-> "none"]
    /\ stop_seen = [w \in 1..MaxWorkers |-> FALSE]

CycleInit ==
    /\ agent_metadata = [a \in Agents |-> NoDesc]
    /\ last_run = [a \in Agents |-> NoTime]
    /\ changes = 0
    /\ agent_state_cache = EmptyCache
    /\ state_file = NoFile
    /\ clock = 0
    /\ pc = "idle"
    /\ scope = None
    /\ todo = <<>>
    /\ cycle_results = NewCycleResults
    /\ phases = <<>>
    /\ lastDetect = NoDetect
    /\ owed = {}

Init ==
    /\ CycleInit
    /\ auto_eval_available \in BOOLEAN
    /\ SchedInit
    /\ ServiceInit

Next ==
    \/ \E agent_id \in Scopes, f \in AllFailures : CycleObserve(agent_id, f)
    \/ \E pytest \in PytestOutcomes, negative \in GenerationOutcomes :
          CycleAct(pytest, negative)
    \/ \E f \in AllFailures : CycleObserveAgain(f)
    \/ CycleReturn
    \/ Crash
    \/ \E a \in Agents, description \in Descriptions : register_agent(a, description)
    \/ \E a \in Agents : record_execution(a, TRUE, NoCost)

Spec == Init /\ [][Next]_vars

\* detect calls on their own against a changing inventory
DetectInit ==
    /\ CycleInit
    /\ auto_eval_available = TRUE
    /\ SchedInit
    /\ ServiceInit

DetectNext ==
    \/ \E agent_id \in Scopes, f \in AllFailures : Detect(agent_id, f)
    \/ Crash
    \/ \E a \in Agents, description \in Descriptions : register_agent(a, description)
    \/ \E a \in Agents : record_execution(a, TRUE, NoCost)

DetectSpec == DetectInit /\ [][DetectNext]_vars


\* the inventory service on its own
InventoryNext ==
    \/ \E a \in Agents, description \in Descriptions : register_agent(a, description)
    \/ \E a \in Agents, success \in BOOLEAN : record_execution(a, success, NoCost)
    \/ \E a \in Agents : delete_agent(a)

\* the service with any set of agents registered and no execution recorded yet
InventorySpecInit ==
    /\ agent_metadata \in [Agents -> Descriptions \cup {NoDesc}]
    /\ last_run = [a \in Agents |-> NoTime]
    /\ changes = 0
    /\ agent_state_cache = EmptyCache
    /\ state_file = NoFile
    /\ clock = 0
    /\ pc = "idle"
    /\ scope = None
    /\ todo = <<>>
    /\ cycle_results = NewCycleResults
    /\ phases = <<>>
    /\ lastDetect = NoDetect
    /\ owed = {}
    /\ auto_eval_available = TRUE
    /\ SchedInit
    /\ ServiceInit

InventorySpec == InventorySpecInit /\ [][InventoryNext]_vars

\* detect calls from the state the orchestrator and the inventory are in after
\* agent a1 was registered and a first detect cached and saved it, before any
\* execution of a1 is recorded (clock and request counter start from there)
FirstCached ==
    [EmptyCache EXCEPT !["a1"] = [config_hash |-> 10 + 1, last_run_time |-> NoTime,
                                  last_check_time |-> 0]]

RedeployInit ==
    /\ agent_metadata = [a \in Agents |-> IF a = "a1" THEN 1 ELSE NoDesc]
    /\ last_run = [a \in Agents |-> NoTime]
    /\ changes = 0
    /\ agent_state_cache = FirstCached
    /\ state_file = [exists |-> TRUE, content |-> FirstCached]
    /\ clock = 0
    /\ pc = "idle"
    /\ scope = None
    /\ todo = <<>>
    /\ cycle_results = NewCycleResults
    /\ phases = <<>>
    /\ lastDetect = NoDetect
    /\ owed = {}
    /\ auto_eval_available = TRUE
    /\ SchedInit
    /\ ServiceInit

RedeploySpec == RedeployInit /\ [][DetectNext]_vars

\* detect calls while agents are registered and executions with a cost are
\* recorded
HashNext ==
    \/ \E agent_id \in Scopes, f \in AllFailures : Detect(agent_id, f)
    \/ \E a \in Agents, description \in Descriptions : register_agent(a, description)
    \/ \E a \in Agents, success \in BOOLEAN, cost_usd \in Costs :
          record_execution(a, success, cost_usd)

HashSpec == DetectInit /\ [][HashNext]_vars

\* eval set generation on its own
GenerationNext ==
    \E set_type \in Categories, count \in Counts, force_regenerate \in BOOLEAN,
       writeFail \in BOOLEAN :
        \E slots \in [1..count -> SlotOutcomes] :
            generate_eval_set(set_type, count, force_regenerate, slots, writeFail)

GenerationSpec == DetectInit /\ [][GenerationNext]_vars

\* the size-adjusted example generators on their own
ExampleNext ==
    \/ \E negative_type \in NegativeTypes, outcome \in SlotOutcomes,
          generated \in GeneratedInputs, tokens \in TokenCounts :
            generate_negative_example_llm(negative_type, outcome, generated, tokens)
    \/ \E target_tokens \in TargetTokens, outcome \in SlotOutcomes,
          generated \in GeneratedInputs, tokens \in TokenCounts :
            generate_stress_example_llm(target_tokens, outcome, generated, tokens)

ExampleSpec == DetectInit /\ [][ExampleNext]_vars

\* the reasoning cost service: one trace is posted and estimated
PostedTraces ==
    {[NoEstimate EXCEPT !.steps = st, !.tool_calls = tc, !.tokens_in_trace = tk] :
        st \in -1..MaxSteps, tc \in -1..MaxToolCalls, tk \in TraceTokens}

CostInit ==
    /\ CycleInit
    /\ auto_eval_available = TRUE
    /\ SchedInit
    /\ StoreInit
    /\ lastEstimate \in PostedTraces

CostNext == estimate_reasoning_cost

CostSpec == CostInit /\ [][CostNext]_vars

\* --------------------------------------------------------------- scheduler
Workers == 1..MaxWorkers
CycleEnds == {"success", "partial_success", "error", "exception"}
Alive(w) == worker[w] \in {"start", "cycle", "loop", "sleep"}

\* start_scheduler with the scheduler enabled in the configuration (a disabled
\* scheduler returns False and changes nothing): refuses while the flag is set,
\* otherwise sets it and starts a new daemon thread.
start_scheduler(w) ==
    /\ mainpc = "run"
    /\ ~scheduler_running
    /\ worker[w] = "unborn"
    /\ \A v \in Workers : v < w => worker[v] # "unborn"
    /\ scheduler_running' = TRUE
    /\ scheduler_thread' = w
    /\ worker' = [worker EXCEPT ![w] = "start"]
    /\ UNCHANGED <<mainpc, by_signal, cycle_end, stop_seen>>
    /\ UNCHANGED cycleVars
    /\ UNCHANGED serviceVars

\* scheduler_worker up to the loop: the cycle on start, if configured
WorkerStart(w, run_on_start) ==
    /\ worker[w] = "start"
    /\ worker' = [worker EXCEPT ![w] = IF run_on_start THEN "cycle" ELSE "loop"]
    /\ UNCHANGED <<scheduler_running, scheduler_thread, mainpc, by_signal, cycle_end,
                   stop_seen>>
    /\ UNCHANGED cycleVars
    /\ UNCHANGED serviceVars

\* run_scheduled_cycle without its try/except: the exception ends the thread
after_cycle_uncaught(outcome) == IF outcome = "exception" THEN "dead" ELSE "loop"

\* where the worker is after run_scheduled_cycle: it catches every Exception
\* of react_cycle, so the worker is back in its loop whatever the cycle did
after_cycle(outcome) == "loop"

\* run_scheduled_cycle finishes
WorkerCycleEnd(w, outcome) ==
    /\ worker[w] = "cycle"
    /\ worker' = [worker EXCEPT ![w] = after_cycle(outcome)]
    /\ cycle_end' = [cycle_end EXCEPT ![w] = outcome]
    /\ stop_seen' = [stop_seen EXCEPT ![w] = FALSE]
    /\ UNCHANGED <<scheduler_running, scheduler_thread, mainpc, by_signal>>
    /\ UNCHANGED cycleVars
    /\ UNCHANGED serviceVars

\* `while _scheduler_running:` then time.sleep, or the end of the thread
WorkerLoop(w) ==
    /\ worker[w] = "loop"
    /\ worker' = [worker EXCEPT ![w] = IF scheduler_running THEN "sleep" ELSE "exited"]
    /\ UNCHANGED <<scheduler_running, scheduler_thread, mainpc, by_signal, cycle_end,
                   stop_seen>>
    /\ UNCHANGED cycleVars
    /\ UNCHANGED serviceVars

\* the sleep is over: `if _scheduler_running: run_scheduled_cycle()`
WorkerWake(w) ==
    /\ worker[w] = "sleep"
    /\ worker' = [worker EXCEPT ![w] = IF scheduler_running THEN "cycle" ELSE "loop"]
    /\ UNCHANGED <<scheduler_running, scheduler_thread, mainpc, by_signal, cycle_end,
                   stop_seen>>
    /\ UNCHANGED cycleVars
    /\ UNCHANGED serviceVars

\* stop_scheduler up to the join (signal = it is signal_handler that calls it).
\* Not running: returns False; signal_handler then exits all the same.
stop_scheduler(signal) ==
    /\ mainpc = "run"
    /\ IF ~scheduler_running
       THEN /\ signal
            /\ mainpc' = "exited"
            /\ worker' = [w \in Workers |-> IF Alive(w) THEN "killed" ELSE worker[w]]
            /\ UNCHANGED <<scheduler_running, by_signal, stop_seen>>
       ELSE /\ scheduler_running' = FALSE
            /\ by_signal' = signal
            /\ stop_seen' = [w \in Workers |-> worker[w] = "cycle"]
            /\ mainpc' = IF scheduler_thread # 0 /\ Alive(scheduler_thread)
                         THEN "join" ELSE "stopped"
            /\ UNCHANGED worker
    /\ UNCHANGED <<scheduler_thread, cycle_end>>
    /\ UNCHANGED cycleVars
    /\ UNCHANGED serviceVars

\* _scheduler_thread.join(timeout=5) returns: the thread has ended, or the five
\* seconds are over (timeout = TRUE), which takes a thread that sleeps or
\* runs a cycle
join_returns(timeout) ==
    \/ ~Alive(scheduler_thread)
    \/ timeout /\ worker[scheduler_thread] \in {"cycle", "sleep"}

JoinReturn(timeout) ==
    /\ mainpc = "join"
    /\ join_returns(timeout)
    /\ mainpc' = "stopped"
    /\ UNCHANGED <<scheduler_running, scheduler_thread, worker, by_signal, cycle_end,
                   stop_seen>>
    /\ UNCHANGED cycleVars
    /\ UNCHANGED serviceVars

\* "Scheduler stopped" is printed and stop_scheduler returns True; under
\* signal_handler sys.exit(0) follows and the daemon threads die with the process
StopReturn ==
    /\ mainpc = "stopped"
    /\ IF by_signal
       THEN /\ mainpc' = "exited"
            /\ worker' = [w \in Workers |-> IF Alive(w) THEN "killed" ELSE worker[w]]
       ELSE /\ mainpc' = "run"
            /\ UNCHANGED worker
    /\ by_signal' = FALSE
    /\ UNCHANGED <<scheduler_running, scheduler_thread, cycle_end, stop_seen>>
    /\ UNCHANGED cycleVars
    /\ UNCHANGED serviceVars

SchedSpecInit ==
    /\ CycleInit
    /\ auto_eval_available = TRUE
    /\ SchedInit
    /\ ServiceInit

WorkerNext(w) ==
    \/ \E run_on_start \in BOOLEAN : WorkerStart(w, run_on_start)
    \/ \E outcome \in CycleEnds : WorkerCycleEnd(w, outcome)
    \/ WorkerLoop(w)
    \/ WorkerWake(w)

SchedNext ==
    \/ \E w \in Workers : start_scheduler(w)
    \/ \E signal \in BOOLEAN : stop_scheduler(signal)
    \/ \E timeout \in BOOLEAN : JoinReturn(timeout)
    \/ StopReturn
    \/ \E w \in Workers : WorkerNext(w)

SchedSpec == SchedSpecInit /\ [][SchedNext]_vars

\* Threads that can run do run and sleeps end; nothing obliges anybody to call
\* start_scheduler or stop_scheduler.
SchedFairSpec ==
    /\ SchedSpec
    /\ \A w \in Workers : WF_vars(WorkerNext(w))
    /\ WF_vars(\E timeout \in BOOLEAN : JoinReturn(timeout))
    /\ WF_vars(StopReturn)


\* ================================================================ properties
Observations == cycle_results.observations
Reacted == {a \in Agents : cycle_results.actions.by_agent[a].status # "none"}

\* ---- C1 (SchedSpec).  React cycles never overlap: whatever start_scheduler
\* and stop_scheduler calls are made, at most one worker thread has a cycle in
\* flight at any time.
C1_CyclesNeverOverlap ==
    Cardinality({w \in Workers : worker[w] = "cycle"}) <= 1

\* ---- C2 (SchedSpec).  Stop is cooperative: once stop_scheduler has reported
\* the scheduler stopped (and, under signal_handler, the process has exited),
\* no cycle that was in flight when the stop was requested is still unfinished.
C2_StopWaitsForCycle ==
    mainpc \in {"stopped", "exited"} => \A w \in Workers : ~stop_seen[w]

\* ---- C3 (SchedFairSpec).  A cycle that ends in failure (detect error,
\* reaction error, raised exception) does not end the worker: unless the
\* running flag is cleared or the process exits, the worker starts another cycle.
C3_LoopSurvivesFailure ==
    \A w \in Workers :
        (/\ cycle_end[w] \in {"error", "partial_success", "exception"}
         /\ worker[w] \in {"loop", "sleep", "dead"})
        ~> (worker[w] = "cycle" \/ ~scheduler_running \/ mainpc = "exited")

\* a worker runs a cycle after one of its cycles raised
C3_Witness ==
    \E w \in Workers :
        worker[w] = "cycle" /\ cycle_end[w] = "exception" /\ scheduler_running

\* ---- C4 (Spec), as claimed.  Every cycle whose first Observe succeeds runs
\* the second detect and fills final_observations, also when nothing changed.
C4_AllFourPhases ==
    (pc = "done" /\ Observations.status = "success")
    => /\ SeqContains(phases, "observe_again")
       /\ cycle_results.final_observations.status # "none"

\* ---- C4 (Spec), amended.  A cycle whose first Observe succeeds and reports
\* changed agents runs Observe, Think, one react call per changed agent in
\* detection order, and Observe-again, which fills final_observations; a cycle
\* whose first Observe reports no changed agent returns after Think, without a
\* second detect and with final_observations empty.
C4_PhasesWhenChanged ==
    (pc = "done" /\ Observations.status = "success")
    => LET changed == Observations.changed_agents
       IN  IF changed = <<>>
           THEN /\ phases = <<"observe", "think">>
                /\ cycle_results.final_observations.status = "none"
           ELSE /\ phases = <<"observe", "think">>
                            \o [i \in 1..Len(changed) |-> changed[i].agent_id]
                            \o <<"observe_again">>
                /\ cycle_results.final_observations.status # "none"

\* a finished cycle that reacted to two agents and observed again
C4_Witness ==
    /\ pc = "done"
    /\ Len(Observations.changed_agents) = 2
    /\ phases[Len(phases)] = "observe_again"

\* ---- C5 (Spec).  A cycle whose first detect succeeds with no changed agent
\* returns the no_changes actions result with status success, and has made no
\* react call.
C5_NoChangesShortCircuit ==
    (pc = "done" /\ Observations.status = "success"
                 /\ Observations.changed_agents = <<>>)
    => /\ cycle_results.actions = NoChangesActions
       /\ cycle_results.status = "success"
       /\ phases = <<"observe", "think">>
       /\ Reacted = {}

\* a finished cycle that found a registered agent unchanged
C5_Witness ==
    /\ pc = "done"
    /\ Observations.status = "success"
    /\ Observations.changed_agents = <<>>
    /\ \E a \in Agents : agent_metadata[a] # NoDesc /\ in_scope(scope, a)

\* a reaction is fully successful when it did not fail and none of its
\* actions ended with an error status
FullySuccessful(r) ==
    /\ r.status = "success"
    /\ \A i \in 1..Len(r.actions_taken) : r.actions_taken[i].status # "error"

\* ---- C6 (Spec).  The status of a finished cycle is error exactly when the
\* first detect failed; otherwise it is partial_success when some changed
\* agent's reaction was not fully successful, and success when there were no
\* changes or every reaction was fully successful.
C6_CycleStatus ==
    pc = "done"
    => /\ (cycle_results.status = "error") <=> (Observations.status # "success")
       /\ Observations.status = "success"
          => cycle_results.status =
                IF \E a \in Reacted : ~FullySuccessful(cycle_results.actions.by_agent[a])
                THEN "partial_success" ELSE "success"

\* what the next detect would report for agent a, from the cache that detect
\* would load
NextDetectReports(a) ==
    change_reasons(load_agent_state_cache(agent_state_cache, state_file, FALSE)[a],
                   get_agent_config_hash(a, {}), last_run[a]) # <<>>

\* ---- C7 (Spec).  At-least-once: between cycles, also after a crash and
\* restart, every agent that a detect reported changed and that no react call
\* has been made for since is reported again by the next detect (while it is
\* still in the inventory).
C7_AtLeastOnce ==
    pc = "idle"
    => \A a \in owed : agent_metadata[a] # NoDesc => NextDetectReports(a)

\* ---- C8 (DetectSpec).  After a successful detect the cache entry of every
\* inspected agent, changed or not, holds the hash, last run time and check
\* time of that detect, and the file written holds that cache.
C8_CacheOverwritten ==
    lastDetect.status = "success"
    => /\ \A a \in lastDetect.inspected :
             lastDetect.cache[a] = [config_hash |-> lastDetect.hashOf[a],
                                    last_run_time |-> lastDetect.runOf[a],
                                    last_check_time |-> lastDetect.now]
       /\ lastDetect.saved => state_file = [exists |-> TRUE, content |-> lastDetect.cache]

ReportedWith(d, a, reasons) ==
    \E i \in 1..Len(d.changed_agents) :
        /\ d.changed_agents[i].agent_id = a
        /\ d.changed_agents[i].change_reasons = reasons

\* ---- C9 (DetectSpec), as claimed.  In a successful detect, every listed
\* agent in scope for which the cache holds no hash is reported with reasons
\* exactly [new_agent].
C9_NewAgentAlwaysReported ==
    lastDetect.status = "success"
    => \A a \in lastDetect.listing :
          (in_scope(lastDetect.agent_id, a) /\ lastDetect.loaded[a].config_hash = NoHash)
          => ReportedWith(lastDetect, a, <<"new_agent">>)

\* ---- C9 (DetectSpec), amended.  In a successful detect, every listed agent
\* in scope whose config hash could be computed and for which the cache holds
\* no hash is reported with reasons exactly [new_agent].
C9_NewAgentReportedWhenHashed ==
    lastDetect.status = "success"
    => \A a \in lastDetect.listing :
          (/\ in_scope(lastDetect.agent_id, a)
           /\ lastDetect.hashOf[a] # NoHash
           /\ lastDetect.loaded[a].config_hash = NoHash)
          => ReportedWith(lastDetect, a, <<"new_agent">>)

\* a new agent that already has a last run time is reported
C9_Witness ==
    /\ lastDetect.status = "success"
    /\ \E a \in lastDetect.inspected :
          /\ lastDetect.loaded[a].config_hash = NoHash
          /\ lastDetect.runOf[a] # NoTime
          /\ ReportedWith(lastDetect, a, <<"new_agent">>)

\* two detect calls saw the same inventory through the same scope
SameSnapshot(d1, d2) ==
    /\ d1.agent_id = d2.agent_id
    /\ d1.listing = d2.listing
    /\ d1.hashOf = d2.hashOf
    /\ d1.runOf = d2.runOf

\* ---- C10 (DetectSpec), as claimed.  When two successive successful detect
\* calls with the same scope see identical inventory snapshots, the second
\* reports no changed agent.
C10_Determinism ==
    [][(/\ lastDetect' # lastDetect
        /\ lastDetect.status = "success"
        /\ lastDetect'.status = "success"
        /\ SameSnapshot(lastDetect, lastDetect'))
       => lastDetect'.changed_agents = <<>>]_vars

\* ---- C10 (DetectSpec), amended.  When two successive successful detect
\* calls with the same scope see identical inventory snapshots and the second
\* call starts from the cache the first call left (the first call's write
\* succeeded and the second call read it back, or there is no cache file and
\* the process was not restarted in between), the second reports no changed
\* agent.
C10_DeterminismFromSameCache ==
    [][(/\ lastDetect' # lastDetect
        /\ lastDetect.status = "success"
        /\ lastDetect'.status = "success"
        /\ SameSnapshot(lastDetect, lastDetect')
        /\ lastDetect'.loaded = lastDetect.cache)
       => lastDetect'.changed_agents = <<>>]_vars

\* a detect reports nothing for an agent that the detect call just before it
\* reported and cached with the same hash and the same last run time
C10_Witness ==
    /\ lastDetect.status = "success"
    /\ lastDetect.changed_agents = <<>>
    /\ \E a \in lastDetect.inspected :
          /\ lastDetect.loaded[a].last_check_time = lastDetect.now - 1
          /\ lastDetect.loaded[a].config_hash = lastDetect.hashOf[a]
          /\ lastDetect.loaded[a].last_run_time = lastDetect.runOf[a]
          /\ lastDetect.runOf[a] # NoTime

\* ---- C11 (DetectSpec).  A detect call that cannot list the inventory
\* returns an error status and leaves the agent state cache as it found it:
\* the map in memory and the cache file are the same after the call as before.
C11_ListFailureLeavesCache ==
    [][(lastDetect' # lastDetect /\ lastDetect'.status = "error")
       => (agent_state_cache' = agent_state_cache /\ state_file' = state_file)]_vars

\* the trigger rules, written out for one agent of a detect call
Triggered(d, a) ==
    \/ d.loaded[a].config_hash = NoHash
    \/ d.loaded[a].config_hash # d.hashOf[a]
    \/ /\ d.runOf[a] # NoTime
       /\ d.loaded[a].last_run_time # NoTime
       /\ d.runOf[a] # d.loaded[a].last_run_time

\* the listed agents in scope of a detect call whose hash lookup failed
HashSkipped(d) ==
    {a \in d.listing : in_scope(d.agent_id, a) /\ d.hashOf[a] = NoHash}

\* ---- C12 (DetectSpec).  A detect call in which the hash lookup of some
\* listed agent fails still returns success; the skipped agent is not reported
\* and keeps the cache entry the call loaded, and every other listed agent in
\* scope is reported exactly when one of its own triggers fires.
C12_HashFailureSkipsAgent ==
    (lastDetect.status # "none" /\ lastDetect.listing # {})
    => /\ lastDetect.status = "success"
       /\ \A a \in HashSkipped(lastDetect) :
             /\ a \notin ReportedBy(lastDetect)
             /\ lastDetect.cache[a] = lastDetect.loaded[a]
       /\ \A a \in lastDetect.listing \ HashSkipped(lastDetect) :
             in_scope(lastDetect.agent_id, a)
             => (a \in ReportedBy(lastDetect) <=> Triggered(lastDetect, a))

\* a detect that skipped the first listed agent and reported the one after it
C12_Witness ==
    /\ lastDetect.status = "success"
    /\ "a1" \in HashSkipped(lastDetect)
    /\ "a2" \in ReportedBy(lastDetect)

\* the action names of a reaction, in the order they were recorded
ActionNames(r) == [i \in 1..Len(r.actions_taken) |-> r.actions_taken[i].action]

\* ---- C13 (Spec).  The three reason tags share one action set: every
\* reaction carried out for change reasons that contain config_changed,
\* redeployed or new_agent (also redeployed alone) has run the positive
\* regression and then the negative generation, the latter requested with
\* force_regenerate = FALSE.
C13_SameActionsForAllReasons ==
    \A a \in Reacted :
        LET r == cycle_results.actions.by_agent[a]
        IN  (\E t \in {"config_changed", "redeployed", "new_agent"} :
                 SeqContains(r.change_reasons, t))
            => /\ ActionNames(r) = <<"regression_test_positive", "generate_negative_tests">>
               /\ r.actions_taken[2].request = negative_request
               /\ r.actions_taken[2].request.force_regenerate = FALSE

\* a reaction to an agent whose only change reason is redeployed
C13_Witness ==
    \E a \in Reacted :
        /\ cycle_results.actions.by_agent[a].change_reasons = <<"redeployed">>
        /\ Len(cycle_results.actions.by_agent[a].actions_taken) = 2

\* ---- C14 (Spec).  When the regression run of a reaction does not succeed
\* (the tests fail, or the run itself errors), the reaction records the
\* regression_test_positive action with a status other than success, and
\* still records the generate_negative_tests action.
C14_FailedRegressionRecorded ==
    \A a \in Reacted :
        LET r == cycle_results.actions.by_agent[a]
        IN  (/\ Len(r.actions_taken) >= 1
             /\ r.actions_taken[1].action = "regression_test_positive"
             /\ r.actions_taken[1].result.pytest = "error")
            => /\ r.actions_taken[1].status # "success"
               /\ SeqContains(ActionNames(r), "generate_negative_tests")

\* ---- C15 (Spec).  The status of a reaction is success only if every action
\* it recorded succeeded: a reaction with an action of status error does not
\* have status success.
C15_StatusReflectsActions ==
    \A a \in Reacted :
        LET r == cycle_results.actions.by_agent[a]
        IN  r.status = "success"
            => \A i \in 1..Len(r.actions_taken) : r.actions_taken[i].status # "error"

\* ---- C16 (GenerationSpec).  Generation is idempotent by default: a
\* generate_eval_set call made without force_regenerate for a category whose
\* .jsonl file already exists returns skipped with the path of that file,
\* asks the generation collaborator for nothing and leaves the file as it is;
\* so repeated reactions generate the negative set at most once.
C16_GenerationIdempotent ==
    (lastGenerate.status # "none" /\ ~lastGenerate.force_regenerate
                                  /\ lastGenerate.existed)
    => /\ lastGenerate.status = "skipped"
       /\ lastGenerate.output_file_jsonl = lastGenerate.set_type
       /\ lastGenerate.llm_calls = 0
       /\ lastGenerate.unchanged

\* a second call for a category the first call persisted examples for
C16_Witness ==
    /\ lastGenerate.call = 2
    /\ lastGenerate.status = "skipped"
    /\ eval_suites[lastGenerate.set_type].examples # <<>>

\* ---- C17 (GenerationSpec).  Generation leaves no slot empty: a
\* generate_eval_set call for any of the four categories and any count n that
\* goes through (not skipped, file written) has persisted exactly n examples,
\* whatever the collaborator did on each slot; the slots whose answer could not
\* be parsed or whose call raised hold the fallback example of the category.
C17_NoEmptySlot ==
    lastGenerate.status = "success"
    => LET f == eval_suites[lastGenerate.set_type]
       IN  /\ f.exists
           /\ Len(f.examples) = lastGenerate.count
           /\ \A i \in 1..lastGenerate.count :
                 f.examples[i] = IF lastGenerate.slots[i] = "json"
                                 THEN "generated"
                                 ELSE fallback_example(lastGenerate.set_type)

\* a call of two slots, one whose answer could not be parsed and one that raised
C17_Witness ==
    /\ lastGenerate.status = "success"
    /\ lastGenerate.count = 2
    /\ {lastGenerate.slots[1], lastGenerate.slots[2]} = {"text", "raise"}
    /\ Len(eval_suites[lastGenerate.set_type].examples) = 2

\* the harness outcome the tests of each category assert
expected_outcome(set_type) == IF set_type = "negative" THEN "fail" ELSE "pass"

\* ---- C18 (GenerationSpec).  The suite run counts an example as passed
\* exactly when its harness outcome is the expected outcome of its category
\* (positive pass, negative fail, adversarial pass, stress pass), so a negative
\* example that fails as expected is in passed and not in failed; and
\* total = passed + failed.
C18_PassedByCategoryRule ==
    LET r == run_evaluation_pytest(eval_suites)
        cases == load_examples(eval_suites, 1)
        asExpected(c) == evaluate_example(c).status = expected_outcome(c)
    IN  /\ r.total = r.passed + r.failed
        /\ r.passed = Len(SelectSeq(cases, asExpected))
        /\ r.failed = r.total - Len(SelectSeq(cases, asExpected))

ZeroUsage == [status_code |-> 200, total_runs |-> 0, failures |-> 0]

\* ---- C19 (InventorySpec).  The usage of an agent the store does not know,
\* or knows without execution records, is the zeroed summary and not an error.
C19_ZeroUsageWithoutRecords ==
    \A a \in Agents :
        (agent_metadata[a] = NoDesc \/ execution_records[a] = <<>>)
        => get_agent_usage(a) = ZeroUsage

\* the usage counts of agent a are the counts of what was recorded for it
\* since its last deletion
CountsMatch(a) ==
    /\ get_agent_usage(a).total_runs = runs_recorded[a]
    /\ get_agent_usage(a).failures = failures_recorded[a]
    /\ get_agent_usage(a).failures <= get_agent_usage(a).total_runs

\* ---- C20 (InventorySpec).  After any sequence of register, record and
\* delete operations, the usage summary of an agent reports as total_runs the
\* number of executions recorded for it since its last deletion and as
\* failures the number of those recorded with success = False, so
\* failures <= total_runs; an agent with an execution recorded since its last
\* deletion has an entry and a summary, registered or not.  (What usage
\* answers for an agent without an entry is the subject of C19.)
C20_UsageCountsRecorded ==
    \A a \in Agents :
        /\ get_agent_usage(a).status_code = 200 => CountsMatch(a)
        /\ runs_recorded[a] > 0
           => (agent_metadata[a] # NoDesc /\ get_agent_usage(a).status_code = 200)

\* an agent with a failed and a successful execution recorded
C20_Witness ==
    \E a \in Agents :
        /\ changes = 2
        /\ runs_recorded[a] = 2
        /\ failures_recorded[a] = 1
        /\ get_agent_usage(a).total_runs = 2

\* ---- C21 (InventorySpec).  A DELETE for a known agent removes its metadata
\* entry and all its execution records and leaves the entries and records of
\* every other agent as they were; a DELETE for an unknown agent answers 404
\* and changes nothing.  So at all times every agent with execution records
\* has a metadata entry.
C21_DeleteRemovesAgent ==
    /\ [](\A a \in Agents : execution_records[a] # <<>> => agent_metadata[a] # NoDesc)
    /\ [][lastDelete' # lastDelete
          => LET a == lastDelete'.agent_id
             IN  /\ \A b \in Agents \ {a} :
                       /\ agent_metadata'[b] = agent_metadata[b]
                       /\ execution_records'[b] = execution_records[b]
                 /\ IF agent_metadata[a] # NoDesc
                    THEN /\ lastDelete'.status_code = 200
                         /\ agent_metadata'[a] = NoDesc
                         /\ execution_records'[a] = <<>>
                    ELSE /\ lastDelete'.status_code = 404
                         /\ agent_metadata'[a] = agent_metadata[a]
                         /\ execution_records'[a] = execution_records[a]]_vars

\* an agent with records has just been deleted while the other agent keeps its own
C21_Witness ==
    /\ lastDelete.status_code = 200
    /\ runs_recorded[lastDelete.agent_id] = 0
    /\ changes = 2
    /\ \E b \in Agents \ {lastDelete.agent_id} : execution_records[b] # <<>>

\* ---- C22 (CostSpec).  For every trace with non-negative steps, tool_calls
\* and tokens_in_trace, the cost score the estimator answers lies between 0
\* and 1.0.
C22_CostScoreInUnitRange ==
    lastEstimate.status_code = 200
        => /\ 0 <= lastEstimate.cost_score
           /\ lastEstimate.cost_score <= 100

\* ---- C23 (CostSpec).  The cost score is monotonically non-decreasing in
\* steps (tool_calls and tokens_in_trace fixed) and in tool_calls (steps and
\* tokens_in_trace fixed): the trace with one more step, and the trace with
\* one more tool call, never gets a lower score than the one estimated.
C23_CostScoreMonotone ==
    lastEstimate.status_code = 200
        => LET t == lastEstimate
           IN  /\ \A s \in cost_scores(t.steps + 1, t.tool_calls, t.tokens_in_trace) :
                    t.cost_score <= s
               /\ \A s \in cost_scores(t.steps, t.tool_calls + 1, t.tokens_in_trace) :
                    t.cost_score <= s

\* ---- C24 (DetectSpec).  A failed write of the cache file is a soft
\* failure: the detect call still returns success with the changes it
\* detected and keeps its cache in memory, and the next detect call writes
\* again: when that call succeeds and its write goes through, the file holds
\* the cache of that call, with the config hash observed for every agent it
\* inspected.
C24_SaveFailureIsSoft ==
    /\ [](lastDetect.status = "success" /\ ~lastDetect.saved
            => /\ ReportedBy(lastDetect)
                    = {a \in lastDetect.inspected : Triggered(lastDetect, a)}
               /\ agent_state_cache # EmptyCache
                    => agent_state_cache = lastDetect.cache)
    /\ [][(/\ lastDetect.status = "success" /\ ~lastDetect.saved
           /\ lastDetect'.now # lastDetect.now
           /\ lastDetect'.status = "success" /\ lastDetect'.saved)
          => /\ state_file' = [exists |-> TRUE, content |-> lastDetect'.cache]
             /\ \A a \in lastDetect'.inspected :
                   state_file'.content[a].config_hash = lastDetect'.hashOf[a]]_vars

\* a detect whose write failed and left no file, then a detect that found the
\* cache in memory and wrote it
C24_Witness ==
    /\ lastDetect.status = "success" /\ lastDetect.saved
    /\ ~lastDetect.from_file
    /\ lastDetect.loaded # EmptyCache
    /\ state_file = [exists |-> TRUE, content |-> lastDetect.cache]

\* ---- C25 (ExampleSpec).  Negative generation of the token_overflow subtype
\* inflates monotonically: when the token count measured for the generated
\* input is below the threshold (4096), the input of the returned example is
\* strictly larger than the generated one, in characters and in its
\* serialised length; and the returned input is never smaller than the
\* generated one.
C25_OverflowInflates ==
    (/\ lastExample.set_type = "negative"
     /\ lastExample.subtype = "token_overflow"
     /\ lastExample.source = "llm")
    => /\ lastExample.tokens < OverflowThreshold
            => /\ lastExample.input.size > lastExample.generated.size
               /\ json_dumps_len(lastExample.input) > json_dumps_len(lastExample.generated)
       /\ lastExample.input.size >= lastExample.generated.size

\* a token_overflow example whose generated dict input was measured under the
\* threshold and came back as five copies of its serialisation
C25_Witness ==
    /\ lastExample.set_type = "negative"
    /\ lastExample.subtype = "token_overflow"
    /\ lastExample.source = "llm"
    /\ lastExample.tokens = 4095
    /\ lastExample.generated.kind = "dict"
    /\ lastExample.input = [kind |-> "str", size |-> 60, strs |-> 0, escaped |-> 0]

\* ---- C26 (ExampleSpec).  Stress generation inflates whenever the generated
\* input is materially under target: for every target and every measured
\* token count below 80% of the target (and above zero), the multiplier is at
\* least 2, and a non-empty string input comes back strictly longer than it
\* was generated.
C26_StressInflates ==
    (/\ lastExample.set_type = "stress"
     /\ lastExample.outcome = "json"
     /\ lastExample.tokens > 0
     /\ 5 * lastExample.tokens < 4 * lastExample.target_tokens)
    => /\ stress_multiplier(lastExample.target_tokens, lastExample.tokens) >= 2
       /\ (lastExample.generated.kind = "str" /\ lastExample.generated.size > 0)
            => lastExample.input.size > lastExample.generated.size

\* the agent is reported by the detect call with the reason among its reasons
ReportedFor(d, a, reason) ==
    \E i \in 1..Len(d.changed_agents) :
        /\ d.changed_agents[i].agent_id = a
        /\ SeqContains(d.changed_agents[i].change_reasons, reason)

\* ---- C27 (RedeploySpec).  When two successive successful detect calls
\* inspect the same agent and observe last run times that are both present and
\* different, the later call (starting from the cache the earlier one left)
\* reports the agent with reason redeployed, also when the agent was first
\* cached with no last run time.
C27_RedeployedReported ==
    [][\A a \in Agents :
         (/\ lastDetect.status = "success" /\ lastDetect'.status = "success"
          /\ lastDetect'.now # lastDetect.now
          /\ a \in lastDetect.inspected /\ a \in lastDetect'.inspected
          /\ lastDetect.runOf[a] # NoTime /\ lastDetect'.runOf[a] # NoTime
          /\ lastDetect.runOf[a] # lastDetect'.runOf[a]
          /\ lastDetect'.loaded = lastDetect.cache)
         => ReportedFor(lastDetect', a, "redeployed")]_vars

\* ---- C28 (Spec).  No change is absorbed without a reaction: every agent for
\* which a finished cycle wrote a new hash or last run time into the cache,
\* in its first detect or in the detect of its last step, had
\* react_to_agent_changes called for it in that cycle.
C28_NoChangeAbsorbed ==
    pc = "done"
    => \A a \in ReportedBy(cycle_results.observations)
                  \cup ReportedBy(cycle_results.final_observations) :
          a \in Reacted

\* ---- C29 (HashSpec).  The config hash depends only on the registration
\* metadata of an agent: a step that leaves an agent's registration as it is
\* (in particular, recording an execution) leaves the hash computed for it as
\* it is.
C29_HashOfRegistrationOnly ==
    [][\A a \in Agents :
         agent_metadata'[a] = agent_metadata[a]
            => get_agent_config_hash(a, {})' = get_agent_config_hash(a, {})]_vars

\* ---- C30 (SchedSpec).  Once the running flag is cleared, and while no
\* start_scheduler sets it again, no scheduler worker starts a React cycle.
C30_NoCycleAfterStop ==
    [][\A w \in Workers :
         (~scheduler_running /\ ~scheduler_running' /\ worker[w] # "cycle")
            => worker'[w] # "cycle"]_vars

====
